---------------------------- MODULE Spec2Model ----------------------------
(***************************************************************************)
(* A model of package resthttp (src/resthttp/resthttp.go): the RestHttp    *)
(* client, its URL builder, header assembly, the verb methods, the file    *)
(* download and the three multipart uploads.                               *)
(*                                                                         *)
(* Go strings are modelled as sequences of one-character strings, so that  *)
(* trimming, joining, splitting and escaping are computed, not assumed.    *)
(* Header values, body tokens and error kinds are atomic strings.          *)
(***************************************************************************)
EXTENDS Integers, Sequences, FiniteSets, TLC

(***************************************************************************)
(* Bounds of the model.                                                    *)
(***************************************************************************)
\* number of goroutines calling methods of one *RestHttp concurrently
NumCallers == 2
\* longest base URL / container / resource string drawn in SpecURL
MaxLen == 2

Callers == 1..NumCallers

(***************************************************************************)
(* Strings.                                                                *)
(***************************************************************************)
Slash == "/"
Backslash == "\\"
\* an ASCII control character (TAB): url.Parse rejects a URL that holds one
Ctl == "\t"

\* all strings over alphabet A of length at most n
RECURSIVE StringsUpTo(_, _)
StringsUpTo(A, n) ==
    IF n = 0 THEN {<<>>}
    ELSE LET S == StringsUpTo(A, n - 1)
         IN  S \cup {Append(s, a) : s \in {t \in S : Len(t) = n - 1}, a \in A}

\* strings.TrimRight(s, ch) for a one-character cutset
RECURSIVE TrimRight(_, _)
TrimRight(s, ch) ==
    IF s = <<>> \/ s[Len(s)] # ch THEN s
    ELSE TrimRight(SubSeq(s, 1, Len(s) - 1), ch)

\* strings.TrimLeft(s, ch) for a one-character cutset
RECURSIVE TrimLeft(_, _)
TrimLeft(s, ch) ==
    IF s = <<>> \/ s[1] # ch THEN s
    ELSE TrimLeft(SubSeq(s, 2, Len(s)), ch)

\* strings.Trim(s, ch)
Trim(s, ch) == TrimLeft(TrimRight(s, ch), ch)

\* strings.Join(parts, sep)
RECURSIVE Join(_, _)
Join(parts, sep) ==
    IF parts = <<>> THEN <<>>
    ELSE IF Len(parts) = 1 THEN parts[1]
    ELSE parts[1] \o sep \o Join(Tail(parts), sep)

\* strings.ReplaceAll(s, old, new) for one-character old and new
ReplaceAll(s, old, new) ==
    [i \in 1..Len(s) |-> IF s[i] = old THEN new ELSE s[i]]

\* strings.Contains for a one-character needle
ContainsChar(s, ch) == \E i \in 1..Len(s) : s[i] = ch

\* strings.Split(s, "/")[len-1]: what follows the last separator
RECURSIVE LastSegment(_, _)
LastSegment(s, sep) ==
    IF s = <<>> THEN <<>>
    ELSE IF s[Len(s)] = sep THEN <<>>
    ELSE LastSegment(SubSeq(s, 1, Len(s) - 1), sep) \o <<s[Len(s)]>>

\* filepath.Base
Base(p) ==
    IF p = <<>> THEN <<".">>
    ELSE LET t == TrimRight(p, Slash)
         IN  IF t = <<>> THEN <<Slash>> ELSE LastSegment(t, Slash)

\* byte value of the characters the model uses
Ord(c) ==
    CASE c = "\t" -> 9
      [] c = " "  -> 32
      [] c = "&"  -> 38
      [] c = "."  -> 46
      [] c = "/"  -> 47
      [] c = "1"  -> 49
      [] c = "="  -> 61
      [] c = "?"  -> 63
      [] c = "\\" -> 92
      [] c = "a"  -> 97
      [] c = "b"  -> 98
      [] c = "c"  -> 99
      [] c = "d"  -> 100
      [] c = "h"  -> 104
      [] c = "m"  -> 109
      [] OTHER    -> 0

\* Go's string comparison s < t (bytewise lexicographic)
RECURSIVE StrLess(_, _)
StrLess(s, t) ==
    IF t = <<>> THEN FALSE
    ELSE IF s = <<>> THEN TRUE
    ELSE IF s[1] # t[1] THEN Ord(s[1]) < Ord(t[1])
    ELSE StrLess(Tail(s), Tail(t))

(***************************************************************************)
(* url.Values and its Encode.                                              *)
(***************************************************************************)
\* a url.Values argument: nil, or a map from keys to ordered value lists
NilValues == [isNil |-> TRUE, m |-> <<>>]
Values(m) == [isNil |-> FALSE, m |-> m]

HexDigits == <<"0", "1", "2", "3", "4", "5", "6", "7",
               "8", "9", "A", "B", "C", "D", "E", "F">>

\* url.QueryEscape of one character: letters, digits and -_.~ are kept, a
\* space becomes "+", every other byte becomes %XX
EscapeChar(c) ==
    IF c \in {"a", "b", "c", "d", "h", "m", "1", "."} THEN <<c>>
    ELSE IF c = " " THEN <<"+">>
    ELSE <<"%", HexDigits[(Ord(c) \div 16) + 1], HexDigits[(Ord(c) % 16) + 1]>>

\* url.QueryEscape
RECURSIVE QueryEscape(_)
QueryEscape(s) ==
    IF s = <<>> THEN <<>> ELSE EscapeChar(s[1]) \o QueryEscape(Tail(s))

\* the keys of a map in sorted order (sort.Strings in Values.Encode)
RECURSIVE SortedKeys(_)
SortedKeys(S) ==
    IF S = {} THEN <<>>
    ELSE LET k == CHOOSE x \in S : \A y \in S \ {x} : StrLess(x, y)
         IN  <<k>> \o SortedKeys(S \ {k})

\* the "key=value" pieces of one key, in the order of its values
RECURSIVE KeyPieces(_, _)
KeyPieces(k, vs) ==
    IF vs = <<>> THEN <<>>
    ELSE <<QueryEscape(k) \o <<"=">> \o QueryEscape(vs[1])>> \o KeyPieces(k, Tail(vs))

RECURSIVE EncodePieces(_, _)
EncodePieces(keys, m) ==
    IF keys = <<>> THEN <<>>
    ELSE KeyPieces(keys[1], m[keys[1]]) \o EncodePieces(Tail(keys), m)

\* url.Values.Encode: "k=v" pieces of the sorted keys joined by "&"; a nil
\* map encodes as the empty string
Encode(v) ==
    IF v.isNil THEN <<>>
    ELSE Join(EncodePieces(SortedKeys(DOMAIN v.m), v.m), <<"&">>)

\* len(v) of a url.Values (0 for nil)
ValuesLen(v) == IF v.isNil THEN 0 ELSE Cardinality(DOMAIN v.m)

(***************************************************************************)
(* http.Header: header name -> ordered list of values (absent = empty).    *)
(***************************************************************************)
HeaderNames == {"Accept", "Authorization", "Content-Type"}
EmptyHeader == [k \in HeaderNames |-> <<>>]
\* http.Header.Set
HeaderSet(h, k, v) == [h EXCEPT ![k] = <<v>>]
\* http.Header.Add
HeaderAdd(h, k, v) == [h EXCEPT ![k] = Append(@, v)]

(***************************************************************************)
(* NewRestHttp and MakeURL.                                                *)
(***************************************************************************)
\* the Authorization value: "Basic " + base64(user ":" password); the base64
\* text is written symbolically around the string it encodes
BasicAuth(user, password) == "Basic " \o "base64(" \o user \o ":" \o password \o ")"

NewRestHttp(baseURL, user, password, sslVerify, debugPrint, timeout) ==
    LET headers == HeaderSet(EmptyHeader, "Accept", "application/json")
    IN  [BaseURL     |-> TrimRight(baseURL, Slash),
         BaseHeaders |-> IF user # "" /\ password # ""
                         THEN HeaderSet(headers, "Authorization", BasicAuth(user, password))
                         ELSE headers,
         User        |-> user,
         Password    |-> password,
         VerifySSL   |-> sslVerify,
         DebugPrint  |-> debugPrint,
         Timeout     |-> timeout]

\* MakeURL without the trailing slash for an empty resource
MakeURLNoEmptySegment(r, container, resource, queryItems) ==
    LET p1 == <<r.BaseURL>>
        p2 == IF container # <<>> THEN Append(p1, Trim(container, Slash)) ELSE p1
        p3 == IF resource # <<>> THEN Append(p2, resource) ELSE p2
        urlStr == Join(p3, <<Slash>>)
    IN  IF ~queryItems.isNil THEN urlStr \o <<"?">> \o Encode(queryItems) ELSE urlStr

MakeURL(r, container, resource, queryItems) ==
    LET p1 == <<r.BaseURL>>
        p2 == IF container # <<>> THEN Append(p1, Trim(container, Slash)) ELSE p1
        p3 == IF resource # <<>> THEN Append(p2, resource) ELSE Append(p2, <<>>)
        urlStr == Join(p3, <<Slash>>)
    IN  IF ~queryItems.isNil THEN urlStr \o <<"?">> \o Encode(queryItems) ELSE urlStr

\* the URL DownloadFile requests (lines 315-329)
DownloadFileURL(r, container, resource, queryItems) ==
    LET res == ReplaceAll(resource, Backslash, Slash)
        url == MakeURL(r, container, res, queryItems)
    IN  IF ~queryItems.isNil /\ ValuesLen(queryItems) > 0
        THEN url \o <<"?">> \o Encode(queryItems)
        ELSE url

(***************************************************************************)
(* The state.                                                              *)
(***************************************************************************)
VARIABLES
    newArgs,   \* the arguments NewRestHttp was called with
    config,    \* the RestHttp value r every method is called on
    call,      \* per caller: the method call in progress and its locals
    fs,        \* the local filesystem: path -> kind and content
    env,       \* the workload: who calls, and the sets arguments are drawn from
    u          \* SpecURL: the URL builder's arguments and result

vars == <<newArgs, config, call, fs, env, u>>

(***************************************************************************)
(* The filesystem: os.Stat, os.Open, os.Create, reading a file.            *)
(***************************************************************************)
FileA == <<"a">>      \* a regular file
DirD == <<"d">>       \* a directory
FileM == <<"m">>      \* a path that does not exist at first
FsPaths == {FileA, DirD, FileM}
FsInit ==
    [p \in FsPaths |->
        IF p = FileA THEN [kind |-> "file", content |-> "A"]
        ELSE IF p = DirD THEN [kind |-> "dir", content |-> ""]
        ELSE [kind |-> "missing", content |-> ""]]

\* any path outside FsPaths (the empty path among them) names nothing
Kind(f, p) == IF p \in DOMAIN f THEN f[p].kind ELSE "missing"
\* fileExists (os.Stat does not report "not exist")
fileExists(f, p) == Kind(f, p) # "missing"
\* os.Open succeeds on a file and on a directory
CanOpen(f, p) == Kind(f, p) # "missing"
\* reading an opened handle (io.Copy from it) fails on a directory
CanRead(f, p) == Kind(f, p) = "file"
\* os.Create succeeds for a path of the directory that is not a directory
CanCreate(f, p) == p \in DOMAIN f /\ f[p].kind # "dir"

(***************************************************************************)
(* Requests, responses, results.                                           *)
(***************************************************************************)
NoArgs ==
    [container |-> <<>>, resource |-> <<>>, query |-> NilValues, accept |-> "",
     savePath |-> <<>>, src |-> <<>>, dstName |-> <<>>, files |-> <<>>,
     params |-> NilValues]
NoReq ==
    [sent |-> FALSE, verb |-> "", url |-> <<>>, header |-> EmptyHeader,
     body |-> <<>>, parts |-> <<>>, fields |-> {}]
\* readOK: whether the body can be read to its end
NoResp == [got |-> FALSE, status |-> 0, body |-> "", readOK |-> FALSE, closed |-> FALSE]
NoResult == [err |-> "", status |-> 0, reason |-> "", body |-> ""]
IdleCall ==
    [pc |-> "idle", method |-> "", args |-> NoArgs, req |-> NoReq, open |-> <<>>,
     closeFuncs |-> <<>>, resp |-> NoResp, result |-> NoResult, created |-> FALSE]
\* a call entered with its arguments
Begin(method, args) == [IdleCall EXCEPT !.method = method, !.args = args]

\* http.NewRequest fails when url.Parse rejects the URL: a control character
NewRequestOK(url) == ~ContainsChar(url, Ctl)

\* the status line text of a response
Status(code) ==
    CASE code = 200 -> "200 OK"
      [] code = 299 -> "299 "
      [] code = 300 -> "300 Multiple Choices"
      [] code = 404 -> "404 Not Found"
      [] OTHER -> ""

NewRestHttpError(httpStatus, httpReason, msg, code) ==
    [err |-> "http", status |-> httpStatus, reason |-> httpReason, body |-> ""]

\* a call that returned err before any response
Failed(cl, kind) ==
    [cl EXCEPT !.pc = "done", !.result = [NoResult EXCEPT !.err = kind]]

\* req.Header.Add(key, value) for each of values, in order
RECURSIVE AddAll(_, _, _)
AddAll(h, k, values) ==
    IF values = <<>> THEN h ELSE AddAll(HeaderAdd(h, k, values[1]), k, Tail(values))

\* every default value is added after what the request already has; the
\* order in which the keys are visited changes nothing
setHeaders(r, header) ==
    [k \in HeaderNames |-> AddAll(header, k, r.BaseHeaders[k])[k]]

\* the request as client.Do sends it
Sent(cl, verb, url, header, body) ==
    [cl EXCEPT !.pc = "inflight",
               !.req = [@ EXCEPT !.sent = TRUE, !.verb = verb, !.url = url,
                                 !.header = header, !.body = body]]

\* header of a new request after an optional req.Header.Set("Accept", accept)
WithAccept(header, accept) ==
    IF accept # "" THEN HeaderSet(header, "Accept", accept) ELSE header

\* what client.Do and the later read of the body can give: a transport
\* error, or a response whose body is read to the end or breaks off
Statuses == {200, 299, 300, 404}
Bodies == {"data"}
TransportError == [terr |-> TRUE, status |-> 0, body |-> "", readOK |-> FALSE]
Outcomes ==
    {TransportError} \cup
    [terr : {FALSE}, status : Statuses, body : Bodies, readOK : BOOLEAN]

\* the response as the method holds it when it returns
Response(out, closed) ==
    [got |-> TRUE, status |-> out.status, body |-> out.body, readOK |-> out.readOK,
     closed |-> closed]

(***************************************************************************)
(* HeadRequest.                                                            *)
(***************************************************************************)
HeadRequestStart(r, cl) ==
    LET a == cl.args
        url == MakeURL(r, a.container, a.resource, NilValues)
    IN  IF ~NewRequestOK(url) THEN Failed(cl, "newrequest")
        ELSE Sent(cl, "HEAD", url, setHeaders(r, EmptyHeader), <<>>)

\* resp.Body is never closed; the status code is returned whatever it is
HeadRequestFinish(cl, out) ==
    IF out.terr THEN Failed(cl, "transport")
    ELSE [cl EXCEPT !.pc = "done", !.resp = Response(out, FALSE),
                    !.result = [NoResult EXCEPT !.status = out.status]]

(***************************************************************************)
(* GetRequest, PostRequest, PutRequest, DeleteRequest.                     *)
(***************************************************************************)
GetRequestStart(r, cl) ==
    LET a == cl.args
        url == MakeURL(r, a.container, a.resource, a.query)
    IN  IF ~NewRequestOK(url) THEN Failed(cl, "newrequest")
        ELSE Sent(cl, "GET", url, setHeaders(r, WithAccept(EmptyHeader, a.accept)), <<>>)

\* a finish that turns a status >= 300 into a RestHttpError (handleResponse)
ReadAllCheckingStatus(cl, out) ==
    IF out.terr THEN Failed(cl, "transport")
    ELSE [cl EXCEPT !.pc = "done", !.resp = Response(out, TRUE),
                    !.result = IF out.status >= 300
                               THEN NewRestHttpError(out.status, Status(out.status), "", "")
                               ELSE IF out.readOK THEN [NoResult EXCEPT !.body = out.body]
                               ELSE [NoResult EXCEPT !.err = "read"]]

\* defer resp.Body.Close(); ioutil.ReadAll(resp.Body); no look at the status
ReadAll(cl, out) ==
    IF out.terr THEN Failed(cl, "transport")
    ELSE [cl EXCEPT !.pc = "done", !.resp = Response(out, TRUE),
                    !.result = IF out.readOK THEN [NoResult EXCEPT !.body = out.body]
                               ELSE [NoResult EXCEPT !.err = "read"]]

GetRequestFinish(cl, out) == ReadAll(cl, out)

FormHeader(accept) ==
    WithAccept(HeaderSet(EmptyHeader, "Content-Type", "application/x-www-form-urlencoded"),
               accept)

PostRequestStart(r, cl) ==
    LET a == cl.args
        url == MakeURL(r, a.container, a.resource, NilValues)
    IN  IF ~NewRequestOK(url) THEN Failed(cl, "newrequest")
        ELSE Sent(cl, "POST", url, setHeaders(r, FormHeader(a.accept)), Encode(a.params))

PostRequestFinish(cl, out) == ReadAll(cl, out)

PutRequestStart(r, cl) ==
    LET a == cl.args
        url == MakeURL(r, a.container, a.resource, NilValues)
    IN  IF ~NewRequestOK(url) THEN Failed(cl, "newrequest")
        ELSE Sent(cl, "PUT", url, setHeaders(r, FormHeader(a.accept)), Encode(a.params))

PutRequestFinish(cl, out) == ReadAll(cl, out)

DeleteRequestStart(r, cl) ==
    LET a == cl.args
        url == MakeURL(r, a.container, a.resource, a.query)
    IN  IF ~NewRequestOK(url) THEN Failed(cl, "newrequest")
        ELSE Sent(cl, "DELETE", url, setHeaders(r, WithAccept(EmptyHeader, a.accept)), <<>>)

DeleteRequestFinish(cl, out) == ReadAll(cl, out)

(***************************************************************************)
(* DownloadFile.                                                           *)
(***************************************************************************)
\* savePath, defaulted to the last segment of the normalised resource
DownloadSavePath(a) ==
    IF a.savePath = <<>>
    THEN LastSegment(ReplaceAll(a.resource, Backslash, Slash), Slash)
    ELSE a.savePath

\* a reference to a header map: the client's own map (shared) or a fresh one
\* http.Header.Clone returns a fresh map
Clone(h) == [shared |-> FALSE, h |-> h]
\* headers := r.BaseHeaders, no copy
NoClone(h) == [shared |-> TRUE, h |-> h]

\* headers.Set on a reference: a write through a shared reference reaches r
SetThrough(r, ref, k, v) ==
    IF ref.shared THEN [r EXCEPT !.BaseHeaders = HeaderSet(ref.h, k, v)] ELSE r

\* DownloadFile's header preparation with the client's own map
DownloadFileHeadersShared(r, accept) ==
    LET headers == NoClone(r.BaseHeaders)
    IN  IF accept # "" THEN SetThrough(r, headers, "Accept", accept) ELSE r

\* r after DownloadFile prepared its (unused) local headers
DownloadFileHeaders(r, accept) ==
    LET headers == Clone(r.BaseHeaders)
    IN  IF accept # "" THEN SetThrough(r, headers, "Accept", accept) ELSE r

\* the local headers are never given to the request: setHeaders alone fills it
DownloadFileStart(r, cl) ==
    LET a == cl.args
        url == DownloadFileURL(r, a.container, a.resource, a.query)
    IN  IF ~NewRequestOK(url) THEN Failed(cl, "newrequest")
        ELSE Sent(cl, "GET", url, setHeaders(r, EmptyHeader), <<>>)

\* os.Create(savePath) before the status is looked at
DownloadFileFinishCreateFirst(cl, out, f) ==
    LET savePath == DownloadSavePath(cl.args)
    IN
    IF out.terr THEN [call |-> Failed(cl, "transport"), fs |-> f]
    ELSE LET got == [cl EXCEPT !.pc = "done", !.resp = Response(out, TRUE)]
         IN  IF ~CanCreate(f, savePath)
             THEN [call |-> [got EXCEPT !.result.err = "create"], fs |-> f]
             ELSE IF out.status >= 300
             THEN [call |-> [got EXCEPT !.created = TRUE,
                                        !.result = NewRestHttpError(out.status, Status(out.status), "", "")],
                   fs |-> [f EXCEPT ![savePath] = [kind |-> "file", content |-> ""]]]
             ELSE IF ~out.readOK
             THEN [call |-> [got EXCEPT !.created = TRUE, !.result.err = "download"],
                   fs |-> [f EXCEPT ![savePath] = [kind |-> "file", content |-> "partial"]]]
             ELSE [call |-> [got EXCEPT !.created = TRUE],
                   fs |-> [f EXCEPT ![savePath] = [kind |-> "file", content |-> out.body]]]

\* defer resp.Body.Close(); status check; os.Create; defer file.Close();
\* io.Copy(file, resp.Body)
DownloadFileFinish(cl, out, f) ==
    LET savePath == DownloadSavePath(cl.args)
    IN
    IF out.terr THEN [call |-> Failed(cl, "transport"), fs |-> f]
    ELSE LET got == [cl EXCEPT !.pc = "done", !.resp = Response(out, TRUE)]
         IN  IF out.status >= 300
             THEN [call |-> [got EXCEPT !.result =
                                NewRestHttpError(out.status, Status(out.status), "", "")],
                   fs |-> f]
             ELSE IF ~CanCreate(f, savePath)
             THEN [call |-> [got EXCEPT !.result.err = "create"], fs |-> f]
             ELSE IF ~out.readOK
             THEN [call |-> [got EXCEPT !.created = TRUE, !.result.err = "download"],
                   fs |-> [f EXCEPT ![savePath] = [kind |-> "file", content |-> "partial"]]]
             ELSE [call |-> [got EXCEPT !.created = TRUE],
                   fs |-> [f EXCEPT ![savePath] = [kind |-> "file", content |-> out.body]]]

(***************************************************************************)
(* The multipart uploads.                                                  *)
(***************************************************************************)
\* writer.FormDataContentType(), the boundary left out
MultipartType == "multipart/form-data"
MultipartHeader == HeaderSet(EmptyHeader, "Content-Type", MultipartType)

\* one file part as writer.CreateFormFile and io.Copy write it
FilePart(field, filename, f, src) ==
    [field |-> field, filename |-> filename, src |-> src, content |-> f[src].content]

\* the form fields writer.WriteField adds for params (a map: no order)
Fields(params) ==
    IF params.isNil THEN {}
    ELSE UNION {{<<k, params.m[k][i]>> : i \in 1..Len(params.m[k])} : k \in DOMAIN params.m}

\* the request of an upload as client.Do sends it
SentUpload(cl, url, header, parts, fields) ==
    [cl EXCEPT !.pc = "inflight",
               !.req = [@ EXCEPT !.sent = TRUE, !.verb = "POST", !.url = url,
                                 !.header = header, !.parts = parts, !.fields = fields]]

\* UploadFile: the file is the caller's open handle (a.src names it); partOK
\* is whether writer.CreateFormFile succeeds
UploadFileStart(r, cl, f, partOK) ==
    LET a == cl.args
        url == MakeURL(r, a.container, a.resource, NilValues)
    IN  IF ~partOK THEN Failed(cl, "part")
        ELSE IF ~CanRead(f, a.src) THEN Failed(cl, "copy")
        ELSE IF ~NewRequestOK(url) THEN Failed(cl, "newrequest")
        ELSE SentUpload(cl, url, setHeaders(r, MultipartHeader),
                        <<FilePart("file", Base(a.src), f, a.src)>>, Fields(a.params))

UploadFileFinish(cl, out) == ReadAll(cl, out)

\* UploadFileMP up to client.Do with the request sent before the source is
\* looked at
UploadFileMPStartSendFirst(r, cl, f, partOK) ==
    LET a == cl.args
        url == MakeURL(r, a.container, <<>>, NilValues)
        snt == [cl EXCEPT !.req = [@ EXCEPT !.sent = TRUE, !.verb = "POST", !.url = url,
                                            !.header = setHeaders(r, MultipartHeader)]]
    IN  IF ~NewRequestOK(url) THEN Failed(cl, "newrequest")
        ELSE IF ~fileExists(f, a.src) THEN Failed(snt, "notfound")
        ELSE IF ~partOK THEN Failed(snt, "part")
        ELSE IF ~CanRead(f, a.src) THEN Failed(snt, "copy")
        ELSE [snt EXCEPT !.pc = "inflight", !.open = <<a.src>>,
                         !.req.parts = <<FilePart("file",
                                          IF a.dstName = <<>> THEN Base(a.src) ELSE a.dstName,
                                          f, a.src)>>]

\* UploadFileMP up to client.Do; the deferred file.Close() empties open on
\* every return after os.Open
UploadFileMPStart(r, cl, f, partOK) ==
    LET a == cl.args
        dstName == IF a.dstName = <<>> THEN Base(a.src) ELSE a.dstName
        url == MakeURL(r, a.container, <<>>, NilValues)
    IN  IF ~fileExists(f, a.src) THEN Failed(cl, "notfound")
        ELSE IF ~CanOpen(f, a.src) THEN Failed(cl, "open")
        ELSE IF ~partOK THEN Failed(cl, "part")
        ELSE IF ~CanRead(f, a.src) THEN Failed(cl, "copy")
        ELSE IF ~NewRequestOK(url) THEN Failed(cl, "newrequest")
        ELSE [SentUpload(cl, url, setHeaders(r, MultipartHeader),
                         <<FilePart("file", dstName, f, a.src)>>, {})
                EXCEPT !.open = <<a.src>>]

UploadFileMPFinish(cl, out) == [ReadAll(cl, out) EXCEPT !.open = <<>>]

\* the handles of open that the closures of closeFuncs do not close
RemainingOpen(open, closeFuncs) ==
    SelectSeq(open, LAMBDA h : \A i \in 1..Len(closeFuncs) : closeFuncs[i] # h)

LoopStart == [open |-> <<>>, closeFuncs |-> <<>>, parts |-> <<>>, err |-> ""]

\* the loop body that skips a source it cannot open instead of returning
RECURSIVE UploadFilesLoopSkipping(_, _, _, _, _)
UploadFilesLoopSkipping(f, files, order, partFailAt, st) ==
    IF order = <<>> THEN st
    ELSE LET srcPath == order[1]
             dstName == IF files[srcPath] = <<>> THEN Base(srcPath) ELSE files[srcPath]
             i == Len(st.closeFuncs) + 1
         IN  IF ~CanOpen(f, srcPath)
             THEN UploadFilesLoopSkipping(f, files, Tail(order), partFailAt, st)
             ELSE IF partFailAt = i THEN [st EXCEPT !.err = "part"]
             ELSE IF ~CanRead(f, srcPath) THEN [st EXCEPT !.err = "copy"]
             ELSE UploadFilesLoopSkipping(f, files, Tail(order), partFailAt,
                      [st EXCEPT !.open = Append(@, srcPath),
                                 !.closeFuncs = Append(@, srcPath),
                                 !.parts = Append(@, FilePart("files", dstName, f, srcPath))])

\* the range loop of UploadFiles over srcDstMap, visited in `order`: a failed
\* os.Open returns at once; a failed CreateFormFile (the partFailAt-th) or
\* io.Copy closes the file of this iteration and returns; otherwise the
\* file stays open and a closure closing it is appended
RECURSIVE UploadFilesLoop(_, _, _, _, _)
UploadFilesLoop(f, files, order, partFailAt, st) ==
    IF order = <<>> THEN st
    ELSE LET srcPath == order[1]
             dstName == IF files[srcPath] = <<>> THEN Base(srcPath) ELSE files[srcPath]
             i == Len(st.closeFuncs) + 1
         IN  IF ~CanOpen(f, srcPath) THEN [st EXCEPT !.err = "open"]
             ELSE IF partFailAt = i THEN [st EXCEPT !.err = "part"]
             ELSE IF ~CanRead(f, srcPath) THEN [st EXCEPT !.err = "copy"]
             ELSE UploadFilesLoop(f, files, Tail(order), partFailAt,
                      [st EXCEPT !.open = Append(@, srcPath),
                                 !.closeFuncs = Append(@, srcPath),
                                 !.parts = Append(@, FilePart("files", dstName, f, srcPath))])

UploadFilesStart(r, cl, f, order, partFailAt) ==
    LET a == cl.args
        url == MakeURL(r, a.container, <<>>, NilValues)
        st == UploadFilesLoop(f, a.files, order, partFailAt, LoopStart)
        cl1 == [cl EXCEPT !.open = st.open, !.closeFuncs = st.closeFuncs]
    IN  IF st.err # "" THEN Failed(cl1, st.err)
        ELSE IF ~NewRequestOK(url)
        THEN Failed([cl1 EXCEPT !.open = RemainingOpen(st.open, st.closeFuncs)], "newrequest")
        ELSE SentUpload(cl1, url, setHeaders(r, MultipartHeader), st.parts, {})

\* the closures run when client.Do or ReadAll fails, not when the body is
\* returned
UploadFilesFinish(cl, out) ==
    IF out.terr \/ ~out.readOK
    THEN [ReadAll(cl, out) EXCEPT !.open = RemainingOpen(cl.open, cl.closeFuncs)]
    ELSE ReadAll(cl, out)

(***************************************************************************)
(* The workload: the callers and the sets their arguments come from.       *)
(***************************************************************************)
Q1 == Values(<<"a">> :> << <<"1">> >>)
Q2 == Values((<<"b">> :> << <<"/">> >>) @@ (<<"a">> :> << <<"1">>, <<" ">> >>))
EmptyValues == Values(<<>>)

\* all orders a range loop can visit the keys S of a map in
RECURSIVE Orders(_)
Orders(S) ==
    IF S = {} THEN {<<>>}
    ELSE UNION {{<<x>> \o o : o \in Orders(S \ {x})} : x \in S}

NewArgsChoices ==
    {[baseURL |-> <<"h", Slash>>, user |-> usr, password |-> "p",
      sslVerify |-> TRUE, debugPrint |-> FALSE, timeout |-> 10] : usr \in {"", "u"}}

\* one caller, every kind of argument and outcome
WideEnv ==
    [callers    |-> {1},
     containers |-> {<<"c", Slash>>, <<Ctl>>},
     resources  |-> {<<>>, FileM, <<"d", Backslash, "m">>},
     accepts    |-> {"", "text/xml"},
     queries    |-> {NilValues, EmptyValues, Q1},
     savePaths  |-> {<<>>, FileM, DirD},
     sources    |-> FsPaths,
     handles    |-> {FileA, DirD},
     dstNames   |-> {<<>>, <<"n">>},
     fileMaps   |-> {<<>>,
                     FileA :> <<"n">>,
                     (FileA :> <<>>) @@ (FileM :> <<>>),
                     (FileA :> <<>>) @@ (DirD :> <<"n">>),
                     (FileA :> <<>>) @@ (FileM :> <<>>) @@ (DirD :> <<>>)},
     partOKs    |-> BOOLEAN,
     outcomes   |-> Outcomes]

\* concurrent callers, each with the arguments that reach the shared state:
\* the accept value and the files
NarrowEnv ==
    [callers    |-> Callers,
     containers |-> {<<"c", Slash>>},
     resources  |-> {FileM},
     accepts    |-> {"", "text/xml"},
     queries    |-> {NilValues},
     savePaths  |-> {<<>>},
     sources    |-> {FileA},
     handles    |-> {FileA},
     dstNames   |-> {<<>>},
     fileMaps   |-> {FileA :> <<>>},
     partOKs    |-> {TRUE},
     outcomes   |-> {o \in Outcomes : ~o.terr /\ o.readOK /\ o.status \in {200, 404}}]

(***************************************************************************)
(* The actions: each method up to client.Do, then from its return on.      *)
(***************************************************************************)
Idle(c) == c \in env.callers /\ call[c].pc = "idle"
InFlight(c, method) ==
    c \in env.callers /\ call[c].pc = "inflight" /\ call[c].method = method

HeadRequest(c) ==
    /\ Idle(c)
    /\ \E container \in env.containers, resource \in env.resources :
          call' = [call EXCEPT ![c] = HeadRequestStart(config,
                      Begin("HeadRequest", [NoArgs EXCEPT !.container = container,
                                                          !.resource = resource]))]
    /\ UNCHANGED <<newArgs, config, fs, env, u>>

HeadRequestReturn(c) ==
    /\ InFlight(c, "HeadRequest")
    /\ \E out \in env.outcomes :
          call' = [call EXCEPT ![c] = HeadRequestFinish(call[c], out)]
    /\ UNCHANGED <<newArgs, config, fs, env, u>>

GetRequest(c) ==
    /\ Idle(c)
    /\ \E container \in env.containers, resource \in env.resources,
          queryItems \in env.queries, accept \in env.accepts :
          call' = [call EXCEPT ![c] = GetRequestStart(config,
                      Begin("GetRequest", [NoArgs EXCEPT !.container = container,
                                                         !.resource = resource,
                                                         !.query = queryItems,
                                                         !.accept = accept]))]
    /\ UNCHANGED <<newArgs, config, fs, env, u>>

GetRequestReturn(c) ==
    /\ InFlight(c, "GetRequest")
    /\ \E out \in env.outcomes :
          call' = [call EXCEPT ![c] = GetRequestFinish(call[c], out)]
    /\ UNCHANGED <<newArgs, config, fs, env, u>>

PostRequest(c) ==
    /\ Idle(c)
    /\ \E container \in env.containers, resource \in env.resources,
          params \in env.queries, accept \in env.accepts :
          call' = [call EXCEPT ![c] = PostRequestStart(config,
                      Begin("PostRequest", [NoArgs EXCEPT !.container = container,
                                                          !.resource = resource,
                                                          !.params = params,
                                                          !.accept = accept]))]
    /\ UNCHANGED <<newArgs, config, fs, env, u>>

PostRequestReturn(c) ==
    /\ InFlight(c, "PostRequest")
    /\ \E out \in env.outcomes :
          call' = [call EXCEPT ![c] = PostRequestFinish(call[c], out)]
    /\ UNCHANGED <<newArgs, config, fs, env, u>>

PutRequest(c) ==
    /\ Idle(c)
    /\ \E container \in env.containers, resource \in env.resources,
          params \in env.queries, accept \in env.accepts :
          call' = [call EXCEPT ![c] = PutRequestStart(config,
                      Begin("PutRequest", [NoArgs EXCEPT !.container = container,
                                                         !.resource = resource,
                                                         !.params = params,
                                                         !.accept = accept]))]
    /\ UNCHANGED <<newArgs, config, fs, env, u>>

PutRequestReturn(c) ==
    /\ InFlight(c, "PutRequest")
    /\ \E out \in env.outcomes :
          call' = [call EXCEPT ![c] = PutRequestFinish(call[c], out)]
    /\ UNCHANGED <<newArgs, config, fs, env, u>>

DeleteRequest(c) ==
    /\ Idle(c)
    /\ \E container \in env.containers, resource \in env.resources,
          queryItems \in env.queries, accept \in env.accepts :
          call' = [call EXCEPT ![c] = DeleteRequestStart(config,
                      Begin("DeleteRequest", [NoArgs EXCEPT !.container = container,
                                                            !.resource = resource,
                                                            !.query = queryItems,
                                                            !.accept = accept]))]
    /\ UNCHANGED <<newArgs, config, fs, env, u>>

DeleteRequestReturn(c) ==
    /\ InFlight(c, "DeleteRequest")
    /\ \E out \in env.outcomes :
          call' = [call EXCEPT ![c] = DeleteRequestFinish(call[c], out)]
    /\ UNCHANGED <<newArgs, config, fs, env, u>>

DownloadFile(c) ==
    /\ Idle(c)
    /\ \E container \in env.containers, resource \in env.resources,
          savePath \in env.savePaths, accept \in env.accepts,
          queryItems \in env.queries :
          /\ config' = DownloadFileHeaders(config, accept)
          /\ call' = [call EXCEPT ![c] = DownloadFileStart(config',
                         Begin("DownloadFile", [NoArgs EXCEPT !.container = container,
                                                              !.resource = resource,
                                                              !.savePath = savePath,
                                                              !.accept = accept,
                                                              !.query = queryItems]))]
    /\ UNCHANGED <<newArgs, fs, env, u>>

DownloadFileReturn(c) ==
    /\ InFlight(c, "DownloadFile")
    /\ \E out \in env.outcomes :
          LET fin == DownloadFileFinish(call[c], out, fs)
          IN  /\ call' = [call EXCEPT ![c] = fin.call]
              /\ fs' = fin.fs
    /\ UNCHANGED <<newArgs, config, env, u>>

UploadFile(c) ==
    /\ Idle(c)
    /\ \E container \in env.containers, resource \in env.resources,
          params \in env.queries, file \in env.handles, partOK \in env.partOKs :
          call' = [call EXCEPT ![c] = UploadFileStart(config,
                      Begin("UploadFile", [NoArgs EXCEPT !.container = container,
                                                         !.resource = resource,
                                                         !.params = params,
                                                         !.src = file]),
                      fs, partOK)]
    /\ UNCHANGED <<newArgs, config, fs, env, u>>

UploadFileReturn(c) ==
    /\ InFlight(c, "UploadFile")
    /\ \E out \in env.outcomes :
          call' = [call EXCEPT ![c] = UploadFileFinish(call[c], out)]
    /\ UNCHANGED <<newArgs, config, fs, env, u>>

UploadFileMP(c) ==
    /\ Idle(c)
    /\ \E container \in env.containers, srcFilePath \in env.sources,
          dstName \in env.dstNames, partOK \in env.partOKs :
          call' = [call EXCEPT ![c] = UploadFileMPStart(config,
                      Begin("UploadFileMP", [NoArgs EXCEPT !.container = container,
                                                           !.src = srcFilePath,
                                                           !.dstName = dstName]),
                      fs, partOK)]
    /\ UNCHANGED <<newArgs, config, fs, env, u>>

UploadFileMPReturn(c) ==
    /\ InFlight(c, "UploadFileMP")
    /\ \E out \in env.outcomes :
          call' = [call EXCEPT ![c] = UploadFileMPFinish(call[c], out)]
    /\ UNCHANGED <<newArgs, config, fs, env, u>>

UploadFiles(c) ==
    /\ Idle(c)
    /\ \E container \in env.containers, srcDstMap \in env.fileMaps :
       \E order \in Orders(DOMAIN srcDstMap) :
       \E partFailAt \in {0} \cup {i \in 1..Len(order) : FALSE \in env.partOKs} :
          call' = [call EXCEPT ![c] = UploadFilesStart(config,
                      Begin("UploadFiles", [NoArgs EXCEPT !.container = container,
                                                          !.files = srcDstMap]),
                      fs, order, partFailAt)]
    /\ UNCHANGED <<newArgs, config, fs, env, u>>

UploadFilesReturn(c) ==
    /\ InFlight(c, "UploadFiles")
    /\ \E out \in env.outcomes :
          call' = [call EXCEPT ![c] = UploadFilesFinish(call[c], out)]
    /\ UNCHANGED <<newArgs, config, fs, env, u>>

\* the caller has the result; the call's locals are gone
Return(c) ==
    /\ c \in env.callers
    /\ call[c].pc = "done"
    /\ call' = [call EXCEPT ![c] = IdleCall]
    /\ UNCHANGED <<newArgs, config, fs, env, u>>

(***************************************************************************)
(* The URL builder on its own: arguments in, URL out.                      *)
(***************************************************************************)
UOff == [pc |-> "off", container |-> <<>>, resource |-> <<>>, query |-> NilValues,
         out |-> <<>>]

MakeURLCall ==
    /\ u.pc = "in"
    /\ u' = [u EXCEPT !.pc = "MakeURL",
                      !.out = MakeURL(config, u.container, u.resource, u.query)]
    /\ UNCHANGED <<newArgs, config, call, fs, env>>

DownloadFileURLCall ==
    /\ u.pc = "in"
    /\ u' = [u EXCEPT !.pc = "DownloadFile",
                      !.out = DownloadFileURL(config, u.container, u.resource, u.query)]
    /\ UNCHANGED <<newArgs, config, call, fs, env>>

(***************************************************************************)
(* The specifications.                                                     *)
(***************************************************************************)
Construct(a) ==
    NewRestHttp(a.baseURL, a.user, a.password, a.sslVerify, a.debugPrint, a.timeout)

InitWith(e, choices) ==
    /\ newArgs \in choices
    /\ config = Construct(newArgs)
    /\ call = [c \in Callers |-> IdleCall]
    /\ fs = FsInit
    /\ env = e
    /\ u = UOff

\* one caller, all arguments and outcomes
Init == InitWith(WideEnv, NewArgsChoices)

\* NumCallers callers at once on a client built with credentials
InitConcurrent == InitWith(NarrowEnv, {a \in NewArgsChoices : a.user # ""})

InitURL ==
    /\ newArgs \in {[baseURL |-> b, user |-> "", password |-> "", sslVerify |-> TRUE,
                     debugPrint |-> FALSE, timeout |-> 10] :
                        b \in StringsUpTo({"h", Slash}, MaxLen)}
    /\ config = Construct(newArgs)
    /\ call = [c \in Callers |-> IdleCall]
    /\ fs = FsInit
    /\ env = [WideEnv EXCEPT !.callers = {}]
    /\ u \in [pc : {"in"},
              container : StringsUpTo({"c", Slash}, MaxLen),
              resource : StringsUpTo({"m", Slash, Backslash}, MaxLen),
              query : {NilValues, EmptyValues, Q1, Q2},
              out : {<<>>}]

Next ==
    \E c \in Callers :
        \/ HeadRequest(c)   \/ HeadRequestReturn(c)
        \/ GetRequest(c)    \/ GetRequestReturn(c)
        \/ PostRequest(c)   \/ PostRequestReturn(c)
        \/ PutRequest(c)    \/ PutRequestReturn(c)
        \/ DeleteRequest(c) \/ DeleteRequestReturn(c)
        \/ DownloadFile(c)  \/ DownloadFileReturn(c)
        \/ UploadFile(c)    \/ UploadFileReturn(c)
        \/ UploadFileMP(c)  \/ UploadFileMPReturn(c)
        \/ UploadFiles(c)   \/ UploadFilesReturn(c)
        \/ Return(c)

NextURL == MakeURLCall \/ DownloadFileURLCall

Spec == Init /\ [][Next]_vars
SpecConcurrent == InitConcurrent /\ [][Next]_vars
SpecURL == InitURL /\ [][NextURL]_vars

(***************************************************************************)
(* The claims.                                                             *)
(***************************************************************************)
Done(c, method) == call[c].pc = "done" /\ call[c].method = method

\* C1: when UploadFiles returns, no file it opened is still open.
C1_UploadFilesClosesEveryHandle ==
    \A c \in Callers : Done(c, "UploadFiles") => call[c].open = <<>>

\* C2: a request UploadFiles sends holds exactly one file part per entry of
\* the map, each read from its source; a map with a source that cannot be
\* opened and copied never gets its request sent, and a call that failed
\* on open, part creation or copy has sent nothing.
C2_UploadFilesAllOrNothing ==
    \A c \in Callers :
        call[c].method = "UploadFiles" =>
            LET cl == call[c]
                files == cl.args.files
            IN  /\ cl.req.sent =>
                     /\ Len(cl.req.parts) = Cardinality(DOMAIN files)
                     /\ {cl.req.parts[i].src : i \in 1..Len(cl.req.parts)} = DOMAIN files
                     /\ \A i \in 1..Len(cl.req.parts) :
                           /\ cl.req.parts[i].field = "files"
                           /\ cl.req.parts[i].content = fs[cl.req.parts[i].src].content
                /\ (\E p \in DOMAIN files : ~CanRead(fs, p)) =>
                     /\ ~cl.req.sent
                     /\ cl.pc = "done"
                     /\ cl.result.err \in {"open", "part", "copy"}
                /\ cl.result.err \in {"open", "part", "copy"} => ~cl.req.sent

\* C2 witness: a later open failed after an earlier file had been opened
\* and copied, and nothing was sent.
C2_Witness ==
    \E c \in Callers :
        /\ Done(c, "UploadFiles")
        /\ call[c].result.err = "open"
        /\ Len(call[c].closeFuncs) >= 1
        /\ ~call[c].req.sent

\* C3: a DownloadFile answered with a status >= 300 returns a RestHttpError
\* with that status and its status text and has not created the
\* destination; the destination is created only after a status < 300.
C3_DownloadStatusError ==
    \A c \in Callers :
        call[c].method = "DownloadFile" =>
            LET cl == call[c]
            IN  /\ (cl.pc = "done" /\ cl.resp.got /\ cl.resp.status >= 300) =>
                     /\ cl.result.err = "http"
                     /\ cl.result.status = cl.resp.status
                     /\ cl.result.reason = Status(cl.resp.status)
                     /\ ~cl.created
                /\ cl.created => (cl.resp.got /\ cl.resp.status < 300)

\* C3 witness: a download answered 300 to a destination that could be made.
C3_Witness ==
    \E c \in Callers :
        /\ Done(c, "DownloadFile")
        /\ call[c].resp.status = 300
        /\ call[c].result.err = "http"
        /\ CanCreate(fs, DownloadSavePath(call[c].args))

\* C4 as claimed: a call that failed on a missing source file or on creating
\* the destination file has issued no network request.
C4_PreconditionsBeforeNetwork ==
    \A c \in Callers :
        (call[c].pc = "done" /\ call[c].result.err \in {"notfound", "open", "create"})
            => ~call[c].req.sent

\* C4 amended: a missing source file (UploadFileMP, UploadFiles) fails the
\* call before any request is issued; a destination that cannot be created
\* (DownloadFile) fails the call only after the GET was sent and answered
\* with a status < 300.
C4_SourceBeforeNetworkCreateAfter ==
    \A c \in Callers :
        call[c].pc = "done" =>
            LET cl == call[c]
            IN  /\ cl.result.err \in {"notfound", "open"} =>
                     /\ cl.method \in {"UploadFileMP", "UploadFiles"}
                     /\ ~cl.req.sent
                /\ (cl.method \in {"UploadFileMP", "UploadFiles"}
                      /\ \E p \in ({cl.args.src} \ {<<>>}) \cup DOMAIN cl.args.files :
                            Kind(fs, p) = "missing") =>
                     /\ cl.result.err \in {"notfound", "open", "part", "copy"}
                     /\ ~cl.req.sent
                /\ cl.result.err = "create" =>
                     /\ cl.method = "DownloadFile"
                     /\ cl.req.sent
                     /\ cl.resp.got /\ cl.resp.status < 300
                     /\ ~cl.created

\* C4 witness: a download whose destination could not be created, after its
\* request was sent.
C4_Witness ==
    \E c \in Callers :
        /\ Done(c, "DownloadFile")
        /\ call[c].result.err = "create"
        /\ call[c].req.sent

\* C5: a request sent by a method called with a non-empty accept carries that
\* value in its Accept header, and every other default header exactly.
AcceptMethods ==
    {"GetRequest", "PostRequest", "PutRequest", "DeleteRequest", "DownloadFile"}
C5_ExplicitAcceptSent ==
    \A c \in Callers :
        (call[c].req.sent /\ call[c].method \in AcceptMethods /\ call[c].args.accept # "") =>
            /\ \E i \in 1..Len(call[c].req.header["Accept"]) :
                  call[c].req.header["Accept"][i] = call[c].args.accept
            /\ call[c].req.header["Authorization"] = config.BaseHeaders["Authorization"]

\* the headers a call sets itself before the defaults are merged in
OwnHeader(cl) ==
    CASE cl.method \in {"GetRequest", "DeleteRequest"} -> WithAccept(EmptyHeader, cl.args.accept)
      [] cl.method \in {"PostRequest", "PutRequest"} -> FormHeader(cl.args.accept)
      [] cl.method \in {"UploadFile", "UploadFileMP", "UploadFiles"} -> MultipartHeader
      [] OTHER -> EmptyHeader

\* C6: under concurrent calls the client stays as NewRestHttp built it, and
\* the headers of every request sent are the call's own headers plus the
\* defaults as built, whatever the other callers do.
C6_ConfigReadOnly ==
    /\ config = Construct(newArgs)
    /\ \A c \in Callers :
          call[c].req.sent =>
              \A k \in HeaderNames :
                  call[c].req.header[k] =
                      OwnHeader(call[c])[k] \o Construct(newArgs).BaseHeaders[k]

\* C6 witness: a download with an explicit accept and another caller's
\* request are in flight together.
C6_Witness ==
    \E c, d \in Callers :
        /\ c # d
        /\ call[c].pc = "inflight" /\ call[c].method = "DownloadFile"
        /\ call[c].args.accept # ""
        /\ call[d].pc = "inflight" /\ call[d].method = "GetRequest"

\* what precedes the first "?" of a URL
RECURSIVE PathPart(_)
PathPart(url) ==
    IF url = <<>> \/ url[1] = "?" THEN <<>> ELSE <<url[1]>> \o PathPart(Tail(url))

EndsWith(s, t) == Len(s) >= Len(t) /\ SubSeq(s, Len(s) - Len(t) + 1, Len(s)) = t

\* C7: the path MakeURL builds is the trimmed base URL, then "/" and the
\* trimmed container when there is one, then "/" and the resource as given;
\* it ends with "/" when the resource is empty and with the resource itself
\* otherwise.
C7_MakeURLPath ==
    u.pc = "MakeURL" =>
        LET path == PathPart(u.out)
            base == TrimRight(newArgs.baseURL, Slash)
        IN  /\ path = base
                      \o (IF u.container # <<>>
                          THEN <<Slash>> \o TrimLeft(TrimRight(u.container, Slash), Slash)
                          ELSE <<>>)
                      \o <<Slash>> \o u.resource
            /\ u.resource = <<>> => (path # <<>> /\ path[Len(path)] = Slash)
            /\ u.resource # <<>> => EndsWith(path, u.resource)
            /\ u.query.isNil => u.out = path

\* C7 witness: an empty resource under a container that needed trimming,
\* with a query.
C7_Witness ==
    /\ u.pc = "MakeURL"
    /\ u.resource = <<>>
    /\ u.container = <<Slash, "c">>
    /\ newArgs.baseURL = <<"h", Slash>>
    /\ u.query = Q1

\* C8: GET, POST, PUT and DELETE return the body with no error for every
\* status when the body could be read, HEAD returns the status code with no
\* error, and only DownloadFile returns an HTTP-status error.
VerbMethods == {"GetRequest", "PostRequest", "PutRequest", "DeleteRequest"}
C8_VerbsIgnoreStatus ==
    \A c \in Callers :
        call[c].pc = "done" =>
            LET cl == call[c]
            IN  /\ (cl.method \in VerbMethods /\ cl.resp.got /\ cl.resp.readOK) =>
                     (cl.result.err = "" /\ cl.result.body = cl.resp.body)
                /\ (cl.method = "HeadRequest" /\ cl.resp.got) =>
                     (cl.result.err = "" /\ cl.result.status = cl.resp.status)
                /\ cl.result.err = "http" => cl.method = "DownloadFile"

\* C8 witness: a GET answered 404 returned the body and no error.
C8_Witness ==
    \E c \in Callers :
        /\ Done(c, "GetRequest")
        /\ call[c].resp.status = 404
        /\ call[c].result.err = ""
        /\ call[c].result.body = "data"

\* number of "?" in a URL
RECURSIVE QuestionMarks(_)
QuestionMarks(url) ==
    IF url = <<>> THEN 0
    ELSE (IF url[1] = "?" THEN 1 ELSE 0) + QuestionMarks(Tail(url))

\* C9: the URL DownloadFile requests is MakeURL's for the container, the
\* resource with its backslashes replaced, and the query items; it holds
\* the query once.
C9_DownloadRequestsMakeURL ==
    \A c \in Callers :
        (call[c].method = "DownloadFile" /\ call[c].req.sent) =>
            /\ call[c].req.url =
                  MakeURL(config, call[c].args.container,
                          ReplaceAll(call[c].args.resource, Backslash, Slash),
                          call[c].args.query)
            /\ QuestionMarks(call[c].req.url) <= 1

\* C10: a call that got a response has closed its body when it returns.
C10_ResponseBodiesClosed ==
    \A c \in Callers :
        (call[c].pc = "done" /\ call[c].resp.got) => call[c].resp.closed

=============================================================================
